---- MODULE Spec2Model ----
(***************************************************************************)
(* Events API: the SQLAlchemy application (src/app.py, with the Event     *)
(* model of src/models/events.py) and the raw MySQL application           *)
(* (src/mysql_raw/app_mysql.py), each over its own `events` table, both   *)
(* serving the same stream of HTTP requests.                               *)
(***************************************************************************)
EXTENDS Integers, Sequences, FiniteSets, TLC

(***************************************************************************)
(* Bounds of the model.                                                    *)
(***************************************************************************)
\* rows the AUTO_INCREMENT counter of a table may hand out
MaxEvents == 2
\* ticks of the database server's clock (CURRENT_TIMESTAMP)
MaxNow == 1

(***************************************************************************)
(* Values.  Python's None / SQL NULL / JSON null is the string None; a     *)
(* datetime is a tuple <<Y, m, d, H, M, S>> and the NULL datetime is <<>>. *)
(***************************************************************************)
None == "None"
NullDate == <<>>

DT10 == <<2024, 1, 1, 10, 0, 0>>
DT00 == <<2024, 1, 1, 0, 0, 0>>
\* CURRENT_TIMESTAMP at clock tick n
current_timestamp(n) == <<2024, 2, 1, 12, 0, n>>

\* the datetimes of the model
DateTimes == {DT10, DT00} \cup {current_timestamp(n) : n \in 0..MaxNow}

Pad2(n) == IF n < 10 THEN "0" \o ToString(n) ELSE ToString(n)

\* datetime.strftime(dt, '%Y-%m-%d %H:%M:%S')
strftime(dt) ==
    ToString(dt[1]) \o "-" \o Pad2(dt[2]) \o "-" \o Pad2(dt[3]) \o " "
        \o Pad2(dt[4]) \o ":" \o Pad2(dt[5]) \o ":" \o Pad2(dt[6])

\* the spellings of a number that %m, %d, %H, %M, %S accept: with or
\* without the leading zero
Digits2(n) == {Pad2(n), ToString(n)}

\* the strings that datetime.strptime(s, '%Y-%m-%d %H:%M:%S') parses to dt
Spellings(dt) ==
    { ToString(dt[1]) \o "-" \o m \o "-" \o d \o " " \o h \o ":" \o mi \o ":" \o s :
        <<m, d, h, mi, s>> \in Digits2(dt[2]) \X Digits2(dt[3]) \X Digits2(dt[4])
                                \X Digits2(dt[5]) \X Digits2(dt[6]) }

\* the date-only strings MySQL reads as midnight of that day
DateSpellings(dt) ==
    IF dt[4] = 0 /\ dt[5] = 0 /\ dt[6] = 0
    THEN { ToString(dt[1]) \o "-" \o m \o "-" \o d :
             <<m, d>> \in Digits2(dt[2]) \X Digits2(dt[3]) }
    ELSE {}

(***************************************************************************)
(* Request bodies.                                                         *)
(***************************************************************************)
required_fields == <<"title", "description", "event_date", "location">>

Titles == {"Launch", "Party"}
Descriptions == {"Kickoff"}
Locations == {"HQ"}
\* a well-formed date, one without leading zeros, a date without a time,
\* and a string that is no date at all
DateStrings == {"2024-01-01 10:00:00", "2024-1-1 0:0:0", "2024-01-01", "soon"}

FieldValues(k) ==
    CASE k = "title" -> Titles \cup {None}
      [] k = "description" -> Descriptions
      [] k = "event_date" -> DateStrings \cup {None}
      [] k = "location" -> Locations \cup {None}
      [] OTHER -> {"x"}

BodyKeys == {"title", "description", "event_date", "location", "notes"}

\* JSON objects over the four fields, and the object with an unknown key only
JsonObjects ==
    UNION { { f \in [K -> UNION {FieldValues(k) : k \in BodyKeys}] :
                \A k \in K : f[k] \in FieldValues(k) } :
            K \in (SUBSET (BodyKeys \ {"notes"})) \cup {{"notes"}} }

\* what the client sends: a JSON object, the JSON literal null, or bytes
\* that are no JSON
Bodies ==
    { [kind |-> "object", obj |-> f] : f \in JsonObjects }
        \cup { [kind |-> "null", obj |-> <<>>], [kind |-> "malformed", obj |-> <<>>] }


(***************************************************************************)
(* Conversions between strings and datetimes.                              *)
(***************************************************************************)
\* every date string a handler can pass to a parser
AllDateStrings == DateStrings \cup {strftime(dt) : dt \in DateTimes}

\* datetime.strptime(s, '%Y-%m-%d %H:%M:%S'): the datetime, or the exception
\* raised (TypeError for None, ValueError for a string that does not match)
strptime_table ==
    [s \in AllDateStrings |->
        IF \E dt \in DateTimes : s \in Spellings(dt)
        THEN [raises |-> "", value |-> CHOOSE dt \in DateTimes : s \in Spellings(dt)]
        ELSE [raises |-> "ValueError", value |-> NullDate]]

strptime(s) ==
    IF s = None THEN [raises |-> "TypeError", value |-> NullDate]
    ELSE strptime_table[s]

\* MySQL's conversion of a string bound to a DATETIME column (strict SQL
\* mode): delimited dates with or without leading zeros, a date without a time
\* is midnight; anything else is error 1292
mysql_datetime_table ==
    [s \in AllDateStrings |->
        IF \E dt \in DateTimes : s \in Spellings(dt) \cup DateSpellings(dt)
        THEN [raises |-> "",
              value |-> CHOOSE dt \in DateTimes : s \in Spellings(dt) \cup DateSpellings(dt)]
        ELSE [raises |-> "OperationalError", value |-> NullDate]]

mysql_datetime(s) ==
    IF s = None THEN [raises |-> "", value |-> NullDate]
    ELSE mysql_datetime_table[s]

WeekdayNames == <<"Sun", "Mon", "Tue", "Wed", "Thu", "Fri", "Sat">>
MonthNames == <<"Jan", "Feb", "Mar", "Apr", "May", "Jun",
                "Jul", "Aug", "Sep", "Oct", "Nov", "Dec">>
MonthOffsets == <<0, 3, 2, 5, 0, 3, 5, 1, 4, 6, 2, 4>>

\* day of the week, 0 = Sunday
Weekday(dt) ==
    LET y == IF dt[2] < 3 THEN dt[1] - 1 ELSE dt[1]
    IN (y + (y \div 4) - (y \div 100) + (y \div 400) + MonthOffsets[dt[2]] + dt[3]) % 7

\* what jsonify makes of a datetime object: an RFC 822 date
http_date(dt) ==
    WeekdayNames[Weekday(dt) + 1] \o ", " \o Pad2(dt[3]) \o " " \o MonthNames[dt[2]]
        \o " " \o ToString(dt[1]) \o " "
        \o Pad2(dt[4]) \o ":" \o Pad2(dt[5]) \o ":" \o Pad2(dt[6]) \o " GMT"

(***************************************************************************)
(* The events table (src/models/events.py).                                *)
(***************************************************************************)
\* the columns declared without nullable=False
NotNullViolated_nullable(row) == FALSE

\* the columns declared nullable=False hold no NULL
NotNullViolated(row) ==
    \/ row.title = None
    \/ row.event_date = NullDate
    \/ row.location = None

\* Event.to_dict
to_dict(self) ==
    [id |-> self.id,
     title |-> self.title,
     description |-> self.description,
     event_date |-> IF self.event_date # NullDate THEN strftime(self.event_date) ELSE None,
     location |-> self.location,
     created_at |-> IF self.created_at # NullDate THEN strftime(self.created_at) ELSE None]

\* a row fetched with the DictCursor, as jsonify writes it
jsonify_row(row) ==
    [id |-> row.id,
     title |-> row.title,
     description |-> row.description,
     event_date |-> http_date(row.event_date),
     location |-> row.location,
     created_at |-> http_date(row.created_at)]

\* the rows of a table in primary-key order
RECURSIVE RowsFrom(_, _)
RowsFrom(table, i) ==
    IF i > MaxEvents THEN <<>>
    ELSE (IF i \in DOMAIN table THEN <<table[i]>> ELSE <<>>) \o RowsFrom(table, i + 1)

SelectAll(table) == RowsFrom(table, 1)

\* `not data`: None and the empty object are falsy
Falsy(data) == data.kind = "null" \/ (data.kind = "object" /\ DOMAIN data.obj = {})

RECURSIVE Join(_)
Join(seq) ==
    IF seq = <<>> THEN ""
    ELSE IF Len(seq) = 1 THEN seq[1]
    ELSE seq[1] \o ", " \o Join(Tail(seq))

\* [f for f in required_fields if f not in data]
MissingFields(data) == SelectSeq(required_fields, LAMBDA f : f \notin DOMAIN data.obj)

Error500(exc) == [status |-> 500, json |-> [error |-> "An error occured: " \o exc]]

(***************************************************************************)
(* The SQLAlchemy session.  A session holds the objects added to it and   *)
(* the loaded objects whose attributes were assigned; commit flushes both  *)
(* to the table in one transaction.                                        *)
(***************************************************************************)
EmptySession == [new |-> <<>>, dirty |-> <<>>, deleted |-> {}]

\* db.session.commit(): [raises, events, auto_increment]
session_commit(session, events, auto_increment, clock) ==
    LET inserted == [i \in 1..Len(session.new) |->
                        [session.new[i] EXCEPT !.id = auto_increment + i - 1,
                                               !.created_at = current_timestamp(clock)]]
        updated == [id \in DOMAIN events |->
                        IF id \in DOMAIN session.dirty THEN session.dirty[id] ELSE events[id]]
        kept == DOMAIN events \ session.deleted
        ids == kept \cup {inserted[i].id : i \in 1..Len(inserted)}
    IN IF \/ \E i \in 1..Len(inserted) : NotNullViolated(inserted[i])
          \/ \E id \in DOMAIN session.dirty \cap kept : NotNullViolated(session.dirty[id])
       THEN [raises |-> "IntegrityError", events |-> events,
             auto_increment |-> auto_increment]
       ELSE [raises |-> "",
             events |-> [id \in ids |->
                            IF id \in kept THEN updated[id]
                            ELSE inserted[id - auto_increment + 1]],
             auto_increment |-> auto_increment + Len(inserted)]

\* the scoped session is removed when the request's application context ends
shutdown_session(session) == EmptySession

(***************************************************************************)
(* src/app.py: the handlers.  Each yields the table, the counter and the   *)
(* session it leaves, the response, and the storage calls it made.         *)
(***************************************************************************)
Outcome(events, auto_increment, session, resp, calls) ==
    [events |-> events, auto_increment |-> auto_increment, session |-> session,
     resp |-> resp, calls |-> calls]

\* POST /events
create_event(data, events, auto_increment, session, clock) ==
    IF data.kind = "malformed"
    THEN Outcome(events, auto_increment, EmptySession, Error500("BadRequest"),
                 <<"ROLLBACK">>)
    ELSE IF Falsy(data)
    THEN Outcome(events, auto_increment, session,
                 [status |-> 400, json |-> [error |-> "Invalid JSON or no data provided"]],
                 <<>>)
    ELSE IF MissingFields(data) # <<>>
    THEN Outcome(events, auto_increment, session,
                 [status |-> 400,
                  json |-> [error |-> "Missing required fields: "
                                          \o Join(MissingFields(data))]],
                 <<>>)
    ELSE
    LET event_date == strptime(data.obj["event_date"])
        new_event == [id |-> 0,
                      title |-> data.obj["title"],
                      description |-> data.obj["description"],
                      event_date |-> event_date.value,
                      location |-> data.obj["location"],
                      created_at |-> NullDate]
        added == [session EXCEPT !.new = Append(@, new_event)]
        done == session_commit(added, events, auto_increment, clock)
    IN IF event_date.raises = "ValueError"
       THEN Outcome(events, auto_increment, session,
                    [status |-> 400,
                     json |-> [error |-> "Invalid event_date format. Use YYYY-MM-DD HH:MM:SS"]],
                    <<>>)
       ELSE IF event_date.raises # ""
       THEN Outcome(events, auto_increment, EmptySession, Error500(event_date.raises),
                    <<"ROLLBACK">>)
       ELSE IF done.raises # ""
       THEN Outcome(events, auto_increment, EmptySession, Error500(done.raises),
                    <<"INSERT", "ROLLBACK">>)
       ELSE Outcome(done.events, done.auto_increment, EmptySession,
                    [status |-> 201,
                     json |-> [message |-> "Event created successfully",
                               event_id |-> auto_increment,
                               event |-> to_dict(done.events[auto_increment])]],
                    <<"INSERT", "COMMIT", "SELECT">>)

\* GET /events
get_all_events(events, auto_increment, session) ==
    LET rows == SelectAll(events)
    IN Outcome(events, auto_increment, session,
               [status |-> 200,
                json |-> [events |-> [i \in 1..Len(rows) |-> to_dict(rows[i])]]],
               <<"SELECT">>)

\* GET /events/<event_id>
get_single_event(event_id, events, auto_increment, session) ==
    IF event_id \in DOMAIN events
    THEN Outcome(events, auto_increment, session,
                 [status |-> 200, json |-> [event |-> to_dict(events[event_id])]],
                 <<"SELECT">>)
    ELSE Outcome(events, auto_increment, session,
                 [status |-> 404, json |-> [message |-> "Event not found"]],
                 <<"SELECT">>)

\* the ValueError branch of update_event, the pending attributes committed
\* before the request is turned down
invalid_event_date_committed(events, auto_increment, pending, clock) ==
    Outcome(session_commit(pending, events, auto_increment, clock).events,
            auto_increment, EmptySession,
            [status |-> 400,
             json |-> [error |-> "Invalid event_date format. Use YYYY-MM-DD HH:MM:SS"]],
            <<"SELECT", "UPDATE", "COMMIT">>)

\* the ValueError branch of update_event: the request is turned down with the
\* attributes assigned so far still pending in the session
invalid_event_date(events, auto_increment, pending, clock) ==
    Outcome(events, auto_increment, pending,
            [status |-> 400,
             json |-> [error |-> "Invalid event_date format. Use YYYY-MM-DD HH:MM:SS"]],
            <<"SELECT">>)

\* PUT /events/<event_id>
update_event(event_id, data, events, auto_increment, session, clock) ==
    IF event_id \notin DOMAIN events
    THEN Outcome(events, auto_increment, session,
                 [status |-> 404, json |-> [message |-> "Event not found"]],
                 <<"SELECT">>)
    ELSE IF data.kind = "malformed"
    THEN Outcome(events, auto_increment, EmptySession, Error500("BadRequest"),
                 <<"SELECT", "ROLLBACK">>)
    ELSE IF Falsy(data)
    THEN Outcome(events, auto_increment, session,
                 [status |-> 400, json |-> [error |-> "Invalid JSON or no data provided"]],
                 <<"SELECT">>)
    ELSE
    LET \* Query.get returns the object the session already holds, if any
        event == IF event_id \in DOMAIN session.dirty THEN session.dirty[event_id]
                 ELSE events[event_id]
        has(k) == k \in DOMAIN data.obj
        e1 == IF has("title") THEN [event EXCEPT !.title = data.obj["title"]] ELSE event
        e2 == IF has("description")
              THEN [e1 EXCEPT !.description = data.obj["description"]] ELSE e1
        event_date == IF has("event_date") THEN strptime(data.obj["event_date"])
                      ELSE [raises |-> "", value |-> event.event_date]
        e3 == [e2 EXCEPT !.event_date = event_date.value]
        e4 == IF has("location") THEN [e3 EXCEPT !.location = data.obj["location"]] ELSE e3
        \* the attributes assigned before the date is parsed stay pending
        pending == [session EXCEPT !.dirty = (event_id :> e2) @@ @]
        assigned == [session EXCEPT !.dirty = (event_id :> e4) @@ @]
        done == session_commit(assigned, events, auto_increment, clock)
    IN IF event_date.raises = "ValueError"
       THEN invalid_event_date(events, auto_increment, pending, clock)
       ELSE IF event_date.raises # ""
       THEN Outcome(events, auto_increment, EmptySession, Error500(event_date.raises),
                    <<"SELECT", "ROLLBACK">>)
       ELSE IF done.raises # ""
       THEN Outcome(events, auto_increment, EmptySession, Error500(done.raises),
                    <<"SELECT", "UPDATE", "ROLLBACK">>)
       ELSE Outcome(done.events, done.auto_increment, EmptySession,
                    [status |-> 200,
                     json |-> [message |-> "Event updated successfully",
                               event_id |-> event_id,
                               updated_event |-> to_dict(done.events[event_id])]],
                    <<"SELECT", "UPDATE", "COMMIT", "SELECT">>)

\* DELETE /events/<event_id>
delete_event(event_id, events, auto_increment, session, clock) ==
    IF event_id \notin DOMAIN events
    THEN Outcome(events, auto_increment, session,
                 [status |-> 400, json |-> [message |-> "event_to_delete"]],
                 <<"SELECT">>)
    ELSE
    LET done == session_commit([session EXCEPT !.deleted = @ \cup {event_id}],
                               events, auto_increment, clock)
    IN IF done.raises # ""
       THEN Outcome(events, auto_increment, EmptySession, Error500(done.raises),
                    <<"SELECT", "DELETE", "ROLLBACK">>)
       ELSE Outcome(done.events, done.auto_increment, EmptySession,
                    [status |-> 200, json |-> [message |-> "Event deleted successfully"]],
                    <<"SELECT", "DELETE", "COMMIT">>)

(***************************************************************************)
(* src/mysql_raw/app_mysql.py: the handlers.  Each yields the table and    *)
(* the counter it leaves, the response, and the storage calls it made.     *)
(***************************************************************************)
MysqlOutcome(events, auto_increment, resp, calls) ==
    [events |-> events, auto_increment |-> auto_increment, resp |-> resp, calls |-> calls]

\* cursor.execute of an INSERT or UPDATE binding these values: the row the
\* server would write, or the error it raises
mysql_bind(title, description, event_date, location) ==
    LET dt == mysql_datetime(event_date)
        row == [title |-> title, description |-> description,
                event_date |-> dt.value, location |-> location]
    IN IF dt.raises # "" THEN [raises |-> dt.raises, row |-> row]
       ELSE IF NotNullViolated(row) THEN [raises |-> "IntegrityError", row |-> row]
       ELSE [raises |-> "", row |-> row]

\* dict.get(key), the default forgotten
Get_no_default(data, key, default) ==
    IF key \in DOMAIN data.obj THEN data.obj[key] ELSE None

\* dict.get(key, default)
Get(data, key, default) == IF key \in DOMAIN data.obj THEN data.obj[key] ELSE default

\* POST /events
mysql_create_event(data, events, auto_increment, clock) ==
    IF data.kind = "malformed"
    THEN MysqlOutcome(events, auto_increment, Error500("BadRequest"), <<"ROLLBACK">>)
    ELSE IF Falsy(data)
    THEN MysqlOutcome(events, auto_increment,
                      [status |-> 400,
                       json |-> [error |-> "Invalid JSON or no data provided"]],
                      <<>>)
    ELSE IF \E i \in 1..Len(required_fields) : required_fields[i] \notin DOMAIN data.obj
    THEN MysqlOutcome(events, auto_increment,
                      [status |-> 400,
                       json |-> [error |-> "Missing required event fields (title, "
                                    \o "description, event_date, location)"]],
                      <<>>)
    ELSE
    LET title == Get(data, "title", None)
        description == Get(data, "description", None)
        event_date == Get(data, "event_date", None)
        location == Get(data, "location", None)
        bound == mysql_bind(title, description, event_date, location)
        new_event_id == auto_increment
        row == [id |-> new_event_id,
                title |-> bound.row.title,
                description |-> bound.row.description,
                event_date |-> bound.row.event_date,
                location |-> bound.row.location,
                created_at |-> current_timestamp(clock)]
    IN IF bound.raises # ""
       THEN MysqlOutcome(events, auto_increment, Error500(bound.raises),
                         <<"INSERT", "ROLLBACK">>)
       ELSE MysqlOutcome((new_event_id :> row) @@ events, auto_increment + 1,
                         [status |-> 201,
                          json |-> [message |-> "Event created successfully",
                                    event_id |-> new_event_id,
                                    event |-> [title |-> title,
                                               description |-> description,
                                               event_date |-> event_date,
                                               location |-> location]]],
                         <<"INSERT", "COMMIT">>)

\* GET /events
mysql_get_all_events(events, auto_increment) ==
    LET rows == SelectAll(events)
    IN MysqlOutcome(events, auto_increment,
                    [status |-> 200,
                     json |-> [events |-> [i \in 1..Len(rows) |-> jsonify_row(rows[i])]]],
                    <<"SELECT">>)

\* GET /events/<event_id>
mysql_get_single_event(event_id, events, auto_increment) ==
    IF event_id \notin DOMAIN events
    THEN MysqlOutcome(events, auto_increment,
                      [status |-> 404, json |-> [message |-> "Event not found"]],
                      <<"SELECT">>)
    ELSE MysqlOutcome(events, auto_increment,
                      [status |-> 200, json |-> [event |-> jsonify_row(events[event_id])]],
                      <<"SELECT">>)

\* PUT /events/<event_id>
mysql_update_event(event_id, data, events, auto_increment) ==
    IF event_id \notin DOMAIN events
    THEN MysqlOutcome(events, auto_increment,
                      [status |-> 404, json |-> [message |-> "Event not found"]],
                      <<"SELECT">>)
    ELSE IF data.kind = "malformed"
    THEN MysqlOutcome(events, auto_increment, Error500("BadRequest"),
                      <<"SELECT", "ROLLBACK">>)
    ELSE IF Falsy(data)
    THEN MysqlOutcome(events, auto_increment,
                      [status |-> 400,
                       json |-> [error |-> "Invalid JSON or data not provided"]],
                      <<"SELECT">>)
    ELSE
    LET event_to_update == events[event_id]
        title == Get(data, "title", event_to_update.title)
        description == Get(data, "description", event_to_update.description)
        event_date == Get(data, "event_date", strftime(event_to_update.event_date))
        location == Get(data, "location", event_to_update.location)
        bound == mysql_bind(title, description, event_date, location)
        row == [event_to_update EXCEPT !.title = bound.row.title,
                                       !.description = bound.row.description,
                                       !.event_date = bound.row.event_date,
                                       !.location = bound.row.location]
        \* affected rows: the rows the UPDATE changed
        rowcount == IF row = event_to_update THEN 0 ELSE 1
    IN IF bound.raises # ""
       THEN MysqlOutcome(events, auto_increment, Error500(bound.raises),
                         <<"SELECT", "UPDATE", "ROLLBACK">>)
       ELSE IF rowcount = 0
       THEN MysqlOutcome(events, auto_increment,
                         [status |-> 200,
                          json |-> [message |-> "No changes made to event or event not "
                                        \o "found after initial check"]],
                         <<"SELECT", "UPDATE", "COMMIT">>)
       ELSE MysqlOutcome([events EXCEPT ![event_id] = row], auto_increment,
                         [status |-> 200,
                          json |-> [message |-> "Event updated successfully",
                                    event_id |-> event_id,
                                    updated_event |-> [title |-> title,
                                                       description |-> description,
                                                       event_date |-> event_date,
                                                       location |-> location]]],
                         <<"SELECT", "UPDATE", "COMMIT">>)

\* DELETE /events/<event_id>, the DELETE statement never committed
mysql_delete_event_uncommitted(event_id, events, auto_increment) ==
    IF event_id \notin DOMAIN events
    THEN MysqlOutcome(events, auto_increment,
                      [status |-> 404, json |-> [message |-> "Event not found"]],
                      <<"SELECT">>)
    ELSE MysqlOutcome(events, auto_increment,
                      [status |-> 200,
                       json |-> [message |-> "Event deleted successfully"]],
                      <<"SELECT", "DELETE">>)

\* DELETE /events/<event_id>
mysql_delete_event(event_id, events, auto_increment) ==
    LET event_to_delete == event_id \in DOMAIN events
    IN IF ~event_to_delete
       THEN MysqlOutcome(events, auto_increment,
                         [status |-> 404, json |-> [message |-> "Event not found"]],
                         <<"SELECT">>)
       ELSE MysqlOutcome([id \in DOMAIN events \ {event_id} |-> events[id]],
                         auto_increment,
                         [status |-> 200,
                          json |-> [message |-> "Event deleted successfully"]],
                         <<"SELECT", "DELETE", "COMMIT">>)

(***************************************************************************)
(* A deployment runs one of the two applications over its events table     *)
(* and serves one request at a time.                                       *)
(***************************************************************************)
VARIABLES
    app,              \* the application deployed: "app" or "app_mysql"
    now,              \* the database server's clock
    events,           \* the events table: id -> row
    auto_increment,   \* the table's AUTO_INCREMENT counter
    session           \* db.session between requests (src/app.py only)

vars == <<app, now, events, auto_increment, session>>

Apps == {"app", "app_mysql"}
EventIds == 1..MaxEvents

Init ==
    /\ app \in Apps
    /\ now = 0
    /\ events = <<>>
    /\ auto_increment = 1
    /\ session = EmptySession

\* the deployed application's handlers, on the current state
Create(data) ==
    IF app = "app" THEN create_event(data, events, auto_increment, session, now)
    ELSE mysql_create_event(data, events, auto_increment, now)

ReadAll ==
    IF app = "app" THEN get_all_events(events, auto_increment, session)
    ELSE mysql_get_all_events(events, auto_increment)

ReadOne(event_id) ==
    IF app = "app" THEN get_single_event(event_id, events, auto_increment, session)
    ELSE mysql_get_single_event(event_id, events, auto_increment)

Update(event_id, data) ==
    IF app = "app" THEN update_event(event_id, data, events, auto_increment, session, now)
    ELSE mysql_update_event(event_id, data, events, auto_increment)

Remove(event_id) ==
    IF app = "app" THEN delete_event(event_id, events, auto_increment, session, now)
    ELSE mysql_delete_event(event_id, events, auto_increment)

\* the handlers on the state an earlier request left
ReadAllAt(st) ==
    IF app = "app"
    THEN get_all_events(st.events, st.auto_increment, shutdown_session(st.session))
    ELSE mysql_get_all_events(st.events, st.auto_increment)

ReadOneAt(event_id, st) ==
    IF app = "app"
    THEN get_single_event(event_id, st.events, st.auto_increment,
                          shutdown_session(st.session))
    ELSE mysql_get_single_event(event_id, st.events, st.auto_increment)

\* the state a served request leaves; the SQLAlchemy session is removed when
\* the request ends
Serve(outcome) ==
    /\ events' = outcome.events
    /\ auto_increment' = outcome.auto_increment
    /\ session' = IF app = "app" THEN shutdown_session(outcome.session) ELSE session
    /\ UNCHANGED <<app, now>>

Post ==
    /\ auto_increment <= MaxEvents
    /\ \E data \in Bodies : Serve(Create(data))

GetAll ==
    /\ ReadAll.resp.status = 200
    /\ Serve(ReadAll)

GetOne ==
    \E event_id \in EventIds :
        /\ ReadOne(event_id).resp.status \in {200, 404}
        /\ Serve(ReadOne(event_id))

Put ==
    \E event_id \in EventIds, data \in Bodies :
        /\ Update(event_id, data).resp.status \in {200, 400, 404, 500}
        /\ Serve(Update(event_id, data))

Delete ==
    \E event_id \in EventIds :
        /\ Remove(event_id).resp.status \in {200, 400, 404, 500}
        /\ Serve(Remove(event_id))

\* time passes on the database server
Tick ==
    /\ now < MaxNow
    /\ now' = now + 1
    /\ UNCHANGED <<app, events, auto_increment, session>>

Next == Post \/ GetAll \/ GetOne \/ Put \/ Delete \/ Tick

Spec == Init /\ [][Next]_vars

(***************************************************************************)
(* Properties.                                                             *)
(***************************************************************************)
Fields == {"title", "description", "event_date", "location"}
Columns == Fields \cup {"id", "created_at"}

IsObject(data) == data.kind = "object"
Keys(data) == DOMAIN data.obj

\* the string is written YYYY-MM-DD HH:MM:SS
InFormat(s) == s # None /\ \E dt \in DateTimes : s = strftime(dt)
\* the string parses against the pattern %Y-%m-%d %H:%M:%S
Parses(s) == s # None /\ \E dt \in DateTimes : s \in Spellings(dt)

ValidCreate(data) ==
    /\ IsObject(data)
    /\ Keys(data) = Fields
    /\ data.obj["title"] \in Titles
    /\ data.obj["description"] \in Descriptions
    /\ data.obj["location"] \in Locations
    /\ InFormat(data.obj["event_date"])

Success(outcome) == outcome.resp.status \in {200, 201}
SameTable(outcome) ==
    outcome.events = events /\ outcome.auto_increment = auto_increment

\* ids handed out earlier whose rows are gone
Deleted == {id \in EventIds : id < auto_increment /\ id \notin DOMAIN events}
Absent == EventIds \ DOMAIN events

\* C1: a valid create returns 201 with an event_id, and reading that id next
\* returns 200 with a record equal to the create call's 'event', in both
\* applications
C1_CreateThenReadEqual ==
    \A data \in Bodies :
        ValidCreate(data) =>
            LET created == Create(data)
            IN /\ created.resp.status = 201
               /\ LET read == ReadOneAt(created.resp.json.event_id, created)
                  IN /\ read.resp.status = 200
                     /\ read.resp.json.event = created.resp.json.event

\* C2: for an id never created or already deleted, GET, PUT and DELETE on it
\* answer 404 and leave the table as it was, in both applications
C2_AbsentIdNotFound ==
    \A event_id \in Absent :
        /\ ReadOne(event_id).resp.status = 404 /\ SameTable(ReadOne(event_id))
        /\ Remove(event_id).resp.status = 404 /\ SameTable(Remove(event_id))
        /\ \A data \in Bodies :
              Update(event_id, data).resp.status = 404 /\ SameTable(Update(event_id, data))

FormatError(outcome) ==
    /\ outcome.resp.status = 400
    /\ outcome.resp.json = [error |-> "Invalid event_date format. Use YYYY-MM-DD HH:MM:SS"]

\* a body whose event_date is a string that does not parse against the pattern
BadDate(data) ==
    /\ IsObject(data)
    /\ "event_date" \in Keys(data)
    /\ data.obj["event_date"] # None
    /\ ~Parses(data.obj["event_date"])

\* C3: a create, or an update of an existing id, whose event_date string does
\* not parse against YYYY-MM-DD HH:MM:SS answers 400 with the format error and
\* writes nothing, in both applications
C3_BadDateRejected ==
    \A data \in Bodies :
        BadDate(data) =>
            /\ Keys(data) = Fields =>
                  FormatError(Create(data)) /\ SameTable(Create(data))
            /\ \A event_id \in DOMAIN events :
                  FormatError(Update(event_id, data)) /\ SameTable(Update(event_id, data))

\* the orderings of a set of names
Listings(S) ==
    { seq \in [1..Cardinality(S) -> S] : \A i, j \in 1..Cardinality(S) :
                                             seq[i] = seq[j] => i = j }

\* the message names the fields of `missing`, each once, and no other
ListsExactly(message, missing) ==
    \E seq \in Listings(missing) :
        \/ message = "Missing required fields: " \o Join(seq)
        \/ message = "Missing required event fields (" \o Join(seq) \o ")"

\* C4: a create whose body lacks a non-empty set of the four keys answers 400
\* with a message listing exactly the missing names and inserts nothing, in
\* both applications and for every such set, all four included
C4_MissingFieldsListed ==
    \A data \in Bodies :
        (IsObject(data) /\ Fields \ Keys(data) # {}) =>
            LET created == Create(data)
            IN /\ created.resp.status = 400
               /\ DOMAIN created.resp.json = {"error"}
               /\ ListsExactly(created.resp.json.error, Fields \ Keys(data))
               /\ SameTable(created)

\* C5: a successful PUT on an existing event leaves every omitted field, the
\* id and created_at of that row, and every other row, as they were
C5_UpdateFrame ==
    \A event_id \in DOMAIN events, data \in Bodies :
        LET updated == Update(event_id, data)
        IN updated.resp.status = 200 =>
              /\ DOMAIN updated.events = DOMAIN events
              /\ updated.auto_increment = auto_increment
              /\ \A k \in Columns \ Keys(data) :
                    updated.events[event_id][k] = events[event_id][k]
              /\ \A other \in DOMAIN events \ {event_id} :
                    updated.events[other] = events[other]

\* a table with two rows where a PUT that omits a field changes one of them
C5_Witness ==
    /\ Cardinality(DOMAIN events) >= 2
    /\ \E event_id \in DOMAIN events, data \in Bodies :
          /\ IsObject(data) /\ Keys(data) = {"title"}
          /\ Update(event_id, data).resp.status = 200
          /\ Update(event_id, data).events[event_id].title # events[event_id].title

\* the ids GET /events returns
ListedIds(outcome) ==
    {outcome.resp.json.events[i].id : i \in 1..Len(outcome.resp.json.events)}

\* a successful DELETE removes the event from GET /events and GET /events/id
\* and leaves what both return for the other events as it was
DeleteRemoves ==
    \A event_id \in EventIds :
        LET removed == Remove(event_id)
        IN removed.resp.status = 200 =>
              /\ ReadOneAt(event_id, removed).resp.status = 404
              /\ ListedIds(ReadAllAt(removed)) = ListedIds(ReadAll) \ {event_id}
              /\ \A other \in DOMAIN events \ {event_id} :
                    ReadOneAt(other, removed).resp = ReadOne(other).resp
              /\ \A i \in 1..Len(ReadAllAt(removed).resp.json.events) :
                    \E j \in 1..Len(ReadAll.resp.json.events) :
                        ReadAllAt(removed).resp.json.events[i] = ReadAll.resp.json.events[j]

\* a deleted event is in neither GET /events nor GET /events/id
DeletedUnseen ==
    \A event_id \in Deleted :
        /\ ReadOne(event_id).resp.status = 404
        /\ event_id \notin ListedIds(ReadAll)

\* C6: after a DELETE that reports success, every later GET /events omits the
\* event and every later GET /events/id answers 404, and the other events
\* present before the delete are still returned unchanged
C6_DeletedStaysAbsent ==
    /\ [](DeleteRemoves /\ DeletedUnseen)
    /\ [][\A event_id \in Deleted : event_id \notin DOMAIN events']_vars

\* an event was deleted and another one is still stored
C6_Witness ==
    /\ Deleted # {}
    /\ DOMAIN events # {}
    /\ \E event_id \in DOMAIN events : Remove(event_id).resp.status = 200

\* what a commit by a later request would write after this outcome
LaterCommit(outcome) ==
    IF app = "app"
    THEN session_commit(shutdown_session(outcome.session), outcome.events,
                        outcome.auto_increment, now).events
    ELSE outcome.events

\* the outcome is a success, or a failure that changed nothing and left
\* nothing for a later commit to write
Atomic(outcome) ==
    ~Success(outcome) =>
        /\ outcome.resp.status \in {400, 404, 500}
        /\ SameTable(outcome)
        /\ LaterCommit(outcome) = events

\* C7: a create, update or delete that ends in 400, 404 or 500 leaves the
\* persisted rows as they were, and nothing it left pending is committed by a
\* later request
C7_FailureIsAtomic ==
    /\ session = EmptySession
    /\ \A data \in Bodies : Atomic(Create(data))
    /\ \A event_id \in EventIds :
          /\ Atomic(Remove(event_id))
          /\ \A data \in Bodies : Atomic(Update(event_id, data))

\* the SQLAlchemy application has assigned a new title to a stored event and
\* then rejects the request's event_date
C7_Witness ==
    /\ app = "app"
    /\ \E event_id \in DOMAIN events, data \in Bodies :
          LET updated == Update(event_id, data)
          IN /\ updated.resp.status = 400
             /\ event_id \in DOMAIN updated.session.dirty
             /\ updated.session.dirty[event_id].title # events[event_id].title

\* the two applications answer a request alike and leave the same table
SameAnswer(o, m) ==
    /\ o.resp.status = m.resp.status
    /\ o.resp.json = m.resp.json
    /\ o.events = m.events
    /\ o.auto_increment = m.auto_increment

\* C8: from the same table, the two applications return the same status and
\* the same response fields for every request and leave the same rows
C8_AppsEquivalent ==
    /\ \A data \in Bodies :
          SameAnswer(create_event(data, events, auto_increment, EmptySession, now),
                     mysql_create_event(data, events, auto_increment, now))
    /\ SameAnswer(get_all_events(events, auto_increment, EmptySession),
                  mysql_get_all_events(events, auto_increment))
    /\ \A event_id \in EventIds :
          /\ SameAnswer(get_single_event(event_id, events, auto_increment, EmptySession),
                        mysql_get_single_event(event_id, events, auto_increment))
          /\ SameAnswer(delete_event(event_id, events, auto_increment, EmptySession, now),
                        mysql_delete_event(event_id, events, auto_increment))
          /\ \A data \in Bodies :
                SameAnswer(update_event(event_id, data, events, auto_increment,
                                        EmptySession, now),
                           mysql_update_event(event_id, data, events, auto_increment))

\* C9: every persisted row has a non-null title, event_date and location
C9_RequiredColumnsNotNull ==
    \A event_id \in DOMAIN events :
        /\ events[event_id].title # None
        /\ events[event_id].event_date # NullDate
        /\ events[event_id].location # None

\* a body that gives a required key the value null
NullRequired(data) ==
    /\ IsObject(data)
    /\ \E k \in {"title", "event_date", "location"} :
          k \in Keys(data) /\ data.obj[k] = None

\* rows are stored, and a create and an update giving null to a required key
\* are both turned down
C9_Witness ==
    /\ DOMAIN events # {}
    /\ \E data \in Bodies :
          NullRequired(data) /\ Keys(data) = Fields /\ Create(data).resp.status = 500
    /\ \E event_id \in DOMAIN events, data \in Bodies :
          NullRequired(data) /\ Update(event_id, data).resp.status = 500

\* a body that validation turns down: empty or no JSON, a required field
\* missing (create), an event_date that does not parse
InvalidBody(data, creating) ==
    \/ data.kind # "object"
    \/ Keys(data) = {}
    \/ creating /\ Fields \ Keys(data) # {}
    \/ BadDate(data)

\* C10: a create or update with an invalid body answers 400 before any
\* storage call is made
C10_ValidationBeforeStorage ==
    \A data \in Bodies :
        /\ InvalidBody(data, TRUE) =>
              Create(data).resp.status = 400 /\ Create(data).calls = <<>>
        /\ \A event_id \in EventIds :
              InvalidBody(data, FALSE) =>
                  /\ Update(event_id, data).resp.status = 400
                  /\ Update(event_id, data).calls = <<>>

====
